---- MODULE Spec2Model ----
(***************************************************************************)
(* A model of src/hashtable.h: a fixed-capacity hash table with separate   *)
(* chaining.  The heap is modelled explicitly (entry nodes at addresses,   *)
(* each allocated, freed or never used), because removeFromHashTable and   *)
(* destroyHashTable free memory that bucket chains may still point to.     *)
(*                                                                         *)
(* Undefined behaviour is a nondeterministic choice between the outcomes a *)
(* build can produce: a read of freed memory either faults (the call never *)
(* returns: crashed) or sees the bytes that were there when the block was  *)
(* freed; a freed block may be handed out again by a later malloc; the     *)
(* bytes past the end of a buffer compare equal or unequal; the bytes of a *)
(* block grown by realloc are indeterminate past the old size.             *)
(***************************************************************************)
EXTENDS Integers, Sequences, FiniteSets, TLC

\* ------------------------------------------------------------------ bounds

\* Number of heap addresses an entry node (with its key and value buffers)
\* can be placed at.
MaxNodes == 3

\* hashtable->size is only ever incremented: calls that would take it past
\* this are not made.
MaxSize == 3

\* ----------------------------------------------------------------- inputs

NULL == 0

Addr == 1..MaxNodes

\* Keys the caller passes (bytes, keysize = Len): a key, a key that has it as
\* byte-prefix, and a key with a byte above 127.  With one bucket all three
\* share a chain; with two, <<1>> and <<1, 2>> share one.
Keys == { <<1>>, <<1, 2>>, <<200>> }

\* Values the caller passes (bytes, valuesize = Len).
Values == { <<7>>, <<8, 7>> }

\* What an indeterminate byte may read as.
GarbageBytes == {9}

\* Bucket counts the caller asks createHashTable for.
CreateSizes == {-1, 0, 1, 2}

\* ------------------------------------------------- 32-bit unsigned integers
\* An unsigned int is [hi, lo], two 16-bit halves: 2^32 itself is not a
\* number the model checker can hold.

Half == 256 * 256

U32(hi, lo) == [hi |-> hi, lo |-> lo]

\* The 32-bit product of two 16-bit numbers.
Mul16(x, y) ==
    LET p1 == (x \div 256) * y
        p0 == (x % 256) * y
        t  == (p1 % 256) * 256 + p0
    IN  U32((p1 \div 256) + (t \div Half), t % Half)

\* a * b mod 2^32
U32Mul(a, b) ==
    LET ll == Mul16(a.lo, b.lo)
        lh == Mul16(a.lo, b.hi)
        hl == Mul16(a.hi, b.lo)
    IN  U32((ll.hi + lh.lo + hl.lo) % Half, ll.lo)

\* a + b mod 2^32
U32Add(a, b) ==
    LET l == a.lo + b.lo
    IN  U32((a.hi + b.hi + (l \div Half)) % Half, l % Half)

\* a % m for a small positive m
U32Mod(a, m) == (((a.hi % m) * (Half % m)) + (a.lo % m)) % m

\* ------------------------------------------------------------ hash function

RSHash_b == 378551

RSHash_a == 63689

\* CharToU32 on a build whose plain char is unsigned, whatever the build.
CharToU32Unsigned(byte, signedChar) == U32(0, byte)

\* (*key) in "hash * a + (*key)": a char promoted to int and converted to
\* unsigned int.  Whether plain char is signed is the build's choice.
CharToU32(byte, signedChar) ==
    IF signedChar /\ byte >= 128
    THEN U32(Half - 1, Half - 256 + byte)
    ELSE U32(0, byte)

RECURSIVE RSHashLoop(_, _, _, _, _)
RSHashLoop(key, i, hash, a, signedChar) ==
    IF i > Len(key)
    THEN hash
    ELSE RSHashLoop(key, i + 1,
                    U32Add(U32Mul(hash, a), CharToU32(key[i], signedChar)),
                    U32Mul(a, U32(RSHash_b \div Half, RSHash_b % Half)),
                    signedChar)

RSHash(key, signedChar) ==
    RSHashLoop(key, 1, U32(0, 0), U32(RSHash_a \div Half, RSHash_a % Half),
               signedChar)

\* -------------------------------------------------------------------- state

VARIABLES
    signedChar,  \* the build: whether plain char is signed
    ht,          \* the HashTable the caller's handle points to
    heap,        \* the entry nodes, by address
    call,        \* the last call made and what it returned
    crashed,     \* a call faulted and never returned
    doubleFree   \* FREE or REALLOC was handed a block that was already freed

vars == <<signedChar, ht, heap, call, crashed, doubleFree>>

\* struct HashTableEntry with the two buffers it owns.  st is the allocator's
\* view of the node and its buffers: never handed out, allocated, or freed.
\* A freed node keeps the bytes it had.
FreshNode ==
    [st |-> "fresh", key |-> <<>>, key_size |-> 0,
     value |-> <<>>, value_size |-> 0, next |-> NULL]

\* struct HashTable.  st is the handle's state: "null" (no table),
\* "live", or "freed" (destroyed, the handle dangles).
NoTable == [st |-> "null", capacity |-> 0, size |-> 0, table |-> <<>>]

NoCall == [op |-> "none", key |-> <<>>, value |-> <<>>, n |-> 0,
           ret |-> 0, path |-> "none"]

Init ==
    /\ signedChar \in BOOLEAN
    /\ ht = NoTable
    /\ heap = [a \in Addr |-> FreshNode]
    /\ call = NoCall
    /\ crashed = FALSE
    /\ doubleFree = FALSE

\* A call that returns: what it leaves in call.
Returned(op, key, value, n, ret, path) ==
    [op |-> op, key |-> key, value |-> value, n |-> n, ret |-> ret,
     path |-> path]

\* A call that faults: the process is gone, and with it the table and the
\* heap.  No call follows.  path tells what the call was doing.
Fault(op, path) ==
    /\ crashed' = TRUE
    /\ call' = Returned(op, <<>>, <<>>, 0, 0, path)
    /\ ht' = NoTable
    /\ heap' = [a \in Addr |-> FreshNode]
    /\ doubleFree' = FALSE
    /\ UNCHANGED signedChar

\* A fault on a division by zero or on a read or free of freed memory.
Crash(op) == Fault(op, "crash")

\* MALLOC returned NULL and the call went on to write through it
\* (table[hash]->next = NULL, memcpy(entry->key, ...)): a fault.
NullWrite(op) == Fault(op, "nomem")

\* ---------------------------------------------------------------- allocator

\* The addresses MALLOC may return for a new entry: the next address never
\* used, or any freed one (whether or not a chain still points to it).
MallocChoices(h) ==
    LET fresh == {a \in Addr : h[a].st = "fresh"}
    IN  {a \in Addr : h[a].st = "freed"}
        \cup (IF fresh = {} THEN {}
              ELSE {CHOOSE a \in fresh : \A b \in fresh : a <= b})

\* Whether a bucket head or the next link of a used node points to address a.
Referenced(t, h, a) ==
    \/ \E i \in DOMAIN t.table : t.table[i] = a
    \/ \E b \in Addr : h[b].st # "fresh" /\ h[b].next = a

\* A freed block that nothing points to can never be read again, and MALLOC
\* treats it like one it never handed out: it is recorded as such, its stale
\* bytes dropped.  Dropping one may leave another unreferenced.
RECURSIVE Forget(_, _, _)
Forget(t, h, fuel) ==
    LET gone == {a \in Addr : h[a].st = "freed" /\ ~Referenced(t, h, a)}
    IN  IF gone = {} \/ fuel = 0
        THEN h
        ELSE Forget(t, [a \in Addr |-> IF a \in gone THEN FreshNode ELSE h[a]],
                    fuel - 1)

\* Steps a chain walk can take before it has met some node twice.
Fuel == MaxNodes + 1

\* hash % hashtable->capacity
Bucket(key) == U32Mod(RSHash(key, signedChar), ht.capacity)

\* ------------------------------------------------------------------- create

createHashTable(size) ==
    /\ ~crashed
    /\ ht.st = "null"
    /\ \/ \* MALLOC fails: of the table, or of the bucket array (which a
          \* negative size, converted to size_t, always makes fail)
          /\ ht' = NoTable
          /\ call' = Returned("create", <<>>, <<>>, size, NULL, "failed")
       \/ \* MALLOC(0) may return a block; the table then has no bucket
          /\ size >= 0
          /\ ht' = [st |-> "live", capacity |-> size, size |-> 0,
                    table |-> [i \in 0..(size - 1) |-> NULL]]
          /\ call' = Returned("create", <<>>, <<>>, size, 1, "created")
    /\ UNCHANGED <<signedChar, heap, crashed, doubleFree>>

\* ------------------------------------------------------------------- insert

\* memcmp(buf, key, n) == 0 as the outcomes it can have: "eq", "ne", or "ub"
\* (a fault).  When buf holds fewer than n bytes the call reads past its end:
\* if the bytes buf does hold already differ the answer is "ne"; if they
\* agree, the bytes past the end decide.
MemcmpOutcomes(buf, key, n) ==
    IF Len(buf) >= n
    THEN IF SubSeq(buf, 1, n) = SubSeq(key, 1, n) THEN {"eq"} ELSE {"ne"}
    ELSE IF buf = SubSeq(key, 1, Len(buf))
         THEN {"eq", "ne", "ub"}
         ELSE {"ne", "ub"}

\* The number of bytes insertInHashTable compares of a stored key with the
\* new one: memcmp's third argument, keysize, whatever entry->key_size is.
InsertCompareSize(e, key) == Len(key)

\* InsertScan with the comparison inverted (memcmp(...) != 0): an entry with
\* an equal key is walked past.
RECURSIVE InsertScanInverted(_, _, _, _, _)
InsertScanInverted(h, entry, prev_entry, key, fuel) ==
    IF entry = NULL
    THEN {[kind |-> "append", at |-> prev_entry]}
    ELSE IF fuel = 0
    THEN {[kind |-> "ub", at |-> entry]}
    ELSE
      LET e   == h[entry]
          cmp == MemcmpOutcomes(e.key, key, Len(key))
      IN  (IF e.st # "live" \/ "ub" \in cmp
           THEN {[kind |-> "ub", at |-> entry]} ELSE {})
          \cup (IF "ne" \in cmp
                THEN {[kind |-> "match", at |-> entry]} ELSE {})
          \cup (IF "eq" \in cmp
                THEN InsertScanInverted(h, e.next, entry, key, fuel - 1)
                ELSE {})

\* The loop of insertInHashTable over a non-empty chain: the set of ways it
\* can end.  "match": entry at holds the key (by the loop's own test, which
\* compares keysize bytes and not the lengths); "append": the chain ended at
\* prev_entry at; "ub": it read a freed node or past a buffer and faulted.
RECURSIVE InsertScan(_, _, _, _, _)
InsertScan(h, entry, prev_entry, key, fuel) ==
    IF entry = NULL
    THEN {[kind |-> "append", at |-> prev_entry]}
    ELSE IF fuel = 0
    THEN {[kind |-> "ub", at |-> entry]}
    ELSE
      LET e   == h[entry]
          cmp == MemcmpOutcomes(e.key, key, InsertCompareSize(e, key))
      IN  (IF e.st # "live" \/ "ub" \in cmp
           THEN {[kind |-> "ub", at |-> entry]} ELSE {})
          \cup (IF "eq" \in cmp
                THEN {[kind |-> "match", at |-> entry]} ELSE {})
          \cup (IF "ne" \in cmp
                THEN InsertScan(h, e.next, entry, key, fuel - 1) ELSE {})

\* The entries whose key the walk of insertInHashTable may compare with the
\* new key: the head of the chain, and the successor of every entry the
\* comparison can find different.
RECURSIVE InsertCompared(_, _, _, _)
InsertCompared(h, entry, key, fuel) ==
    IF entry = NULL \/ fuel = 0
    THEN {}
    ELSE {entry}
         \cup (IF "ne" \in MemcmpOutcomes(h[entry].key, key,
                                          InsertCompareSize(h[entry], key))
               THEN InsertCompared(h, h[entry].next, key, fuel - 1)
               ELSE {})

\* The new entry insertInHashTable fills in: copies of the key and value.
NewEntry(key, value) ==
    [st |-> "live", key |-> key, key_size |-> Len(key),
     value |-> value, value_size |-> Len(value), next |-> NULL]

\* The bytes a buffer may hold after REALLOC grew it to n bytes: the old
\* bytes, then indeterminate ones.
RECURSIVE GrownBuffers(_, _)
GrownBuffers(old, n) ==
    IF Len(old) >= n
    THEN {old}
    ELSE UNION {GrownBuffers(Append(old, b), n) : b \in GarbageBytes}

\* What the matched entry becomes ("The key is equal. We can overwrite the
\* value!"): the value buffer grows when the new value is larger; the new
\* value's bytes are not copied.
OverwriteEntry(e, value, grown) ==
    IF Len(value) > e.value_size
    THEN [e EXCEPT !.value = grown, !.value_size = Len(value)]
    ELSE e

\* SizeAfterOverwrite without the early return: ++size is reached.
SizeAfterOverwriteCounted(size) == size + 1

\* hashtable->size after an insert that took the overwrite path
SizeAfterOverwrite(size) == size

\* SizeAfterNewEntry without ++ hashtable->size.
SizeAfterNewEntryUncounted(size) == size

\* hashtable->size after an insert that added an entry
SizeAfterNewEntry(size) == size + 1

insertInHashTable(key, value, oom) ==
    /\ ~crashed
    /\ ht.st # "freed"
    /\ \/ \* hashtable == NULL
          /\ ht.st = "null"
          /\ call' = Returned("insert", key, value, 0, -1, "null")
          /\ UNCHANGED <<signedChar, ht, heap, crashed, doubleFree>>
       \/ \* HASH(key, keysize) % 0
          /\ ht.st = "live" /\ ht.capacity = 0
          /\ Crash("insert")
       \/ \* Slot was not filled yet
          /\ ht.st = "live" /\ ht.capacity > 0
          /\ ht.size < MaxSize
          /\ ht.table[Bucket(key)] = NULL
          /\ IF oom
             THEN NullWrite("insert")
             ELSE \E a \in MallocChoices(heap) :
                    /\ ht' = [ht EXCEPT !.table[Bucket(key)] = a,
                                        !.size = SizeAfterNewEntry(ht.size)]
                    /\ heap' = Forget(ht', [heap EXCEPT
                                              ![a] = NewEntry(key, value)],
                                      MaxNodes)
                    /\ call' = Returned("insert", key, value, a, 0, "new")
                    /\ UNCHANGED <<signedChar, crashed, doubleFree>>
       \/ \* The slot is already filled: walk the chain
          /\ ht.st = "live" /\ ht.capacity > 0
          /\ ht.table[Bucket(key)] # NULL
          /\ \E o \in InsertScan(heap, ht.table[Bucket(key)], NULL, key, Fuel) :
               \/ /\ o.kind = "ub"
                  /\ Crash("insert")
               \/ \* the key is equal: overwrite, return 0 before ++size
                  \* (also when REALLOC failed: "overwrite-nomem")
                  /\ o.kind = "match"
                  /\ \E grown \in GrownBuffers(heap[o.at].value, Len(value)) :
                       heap' = [heap EXCEPT ![o.at] =
                                  IF oom THEN @
                                  ELSE OverwriteEntry(@, value, grown)]
                  /\ doubleFree' =
                       (doubleFree \/ (~oom /\ heap[o.at].st # "live"
                                       /\ Len(value) > heap[o.at].value_size))
                  /\ ht' = [ht EXCEPT !.size = SizeAfterOverwrite(ht.size)]
                  /\ call' = Returned("insert", key, value, o.at, 0,
                                      IF oom /\ Len(value) > heap[o.at].value_size
                                      THEN "overwrite-nomem"
                                      ELSE "overwrite")
                  /\ UNCHANGED <<signedChar, crashed>>
               \/ \* new entry at the end of the list
                  /\ o.kind = "append"
                  /\ ht.size < MaxSize
                  /\ IF oom
                     THEN NullWrite("insert")
                     ELSE \E a \in MallocChoices(heap) :
                            /\ ht' = [ht EXCEPT
                                        !.size = SizeAfterNewEntry(ht.size)]
                            /\ heap' = Forget(ht',
                                 [[heap EXCEPT ![o.at].next = a]
                                    EXCEPT ![a] = NewEntry(key, value)],
                                 MaxNodes)
                            /\ call' = Returned("insert", key, value, a, 0, "new")
                                    /\ UNCHANGED <<signedChar, crashed, doubleFree>>

\* ------------------------------------------------------------ remove, find

\* The test both removeFromHashTable and findInHashTable apply to an entry:
\* entry->key != NULL && entry->key_size == keysize && memcmp(...) == 0.
\* With equal sizes the comparison stays inside the stored buffer.
KeyMatches(e, key) ==
    /\ e.key_size = Len(key)
    /\ "eq" \in MemcmpOutcomes(e.key, key, Len(key))

\* The loop of removeFromHashTable: the entry found (or NULL), the entry
\* before it (or NULL), and whether the walk read a freed node.
RECURSIVE RemoveScan(_, _, _, _, _)
RemoveScan(h, entry, prev_entry, key, fuel) ==
    IF entry = NULL
    THEN [entry |-> NULL, prev |-> prev_entry, ub |-> FALSE]
    ELSE IF fuel = 0
    THEN [entry |-> NULL, prev |-> prev_entry, ub |-> TRUE]
    ELSE IF KeyMatches(h[entry], key)
    THEN [entry |-> entry, prev |-> prev_entry, ub |-> h[entry].st # "live"]
    ELSE LET r == RemoveScan(h, h[entry].next, entry, key, fuel - 1)
         IN  [r EXCEPT !.ub = @ \/ h[entry].st # "live"]

\* "Remove entry from the list and attach previous and next link":
\* prev_entry = entry->next assigns the local variable; no node changes.
RelinkPredecessor(h, prev_entry, entry) == h

\* FREE(entry->key); FREE(entry->v.value); FREE(entry)
FreeEntry(h, entry) == [h EXCEPT ![entry].st = "freed"]

\* hashtable->size after a removal
SizeAfterRemove(size) == size

removeFromHashTable(key) ==
    /\ ~crashed
    /\ ht.st # "freed"
    /\ \/ \* hashtable == NULL
          /\ ht.st = "null"
          /\ call' = Returned("remove", key, <<>>, 0, 0, "null")
          /\ UNCHANGED <<signedChar, ht, heap, crashed, doubleFree>>
       \/ \* HASH(key, keysize) % 0
          /\ ht.st = "live" /\ ht.capacity = 0
          /\ Crash("remove")
       \/ /\ ht.st = "live" /\ ht.capacity > 0
          /\ LET hash == Bucket(key)
                 r    == RemoveScan(heap, ht.table[hash], NULL, key, Fuel)
             IN  \/ \* the walk read freed memory and faulted
                    /\ r.ub
                    /\ Crash("remove")
                 \/ \* key not in the chain
                    /\ r.entry = NULL
                    /\ call' = Returned("remove", key, <<>>, 0, 0, "absent")
                    /\ UNCHANGED <<signedChar, ht, heap, crashed, doubleFree>>
                 \/ \* found at the head of the chain
                    /\ r.entry # NULL /\ r.prev = NULL
                    /\ ht' = [ht EXCEPT !.table[hash] = heap[r.entry].next,
                                        !.size = SizeAfterRemove(ht.size)]
                    /\ heap' = Forget(ht', FreeEntry(heap, r.entry), MaxNodes)
                    /\ doubleFree' = (doubleFree \/ heap[r.entry].st # "live")
                    /\ call' = Returned("remove", key, <<>>, r.entry, 0,
                                        IF heap[r.entry].st = "live"
                                        THEN "head" ELSE "head-stale")
                    /\ UNCHANGED <<signedChar, crashed>>
                 \/ \* found after another entry
                    /\ r.entry # NULL /\ r.prev # NULL
                    /\ ht' = [ht EXCEPT !.size = SizeAfterRemove(ht.size)]
                    /\ heap' = Forget(ht',
                                 FreeEntry(
                                   RelinkPredecessor(heap, r.prev, r.entry),
                                   r.entry),
                                 MaxNodes)
                    /\ doubleFree' = (doubleFree \/ heap[r.entry].st # "live")
                    /\ call' = Returned("remove", key, <<>>, r.entry, 0,
                                        IF heap[r.entry].st = "live"
                                        THEN "nonhead" ELSE "nonhead-stale")
                    /\ UNCHANGED <<signedChar, crashed>>

\* FindScan without the entry->key_size == keysize test.
RECURSIVE FindScanNoSize(_, _, _, _)
FindScanNoSize(h, entry, key, fuel) ==
    IF entry = NULL
    THEN [entry |-> NULL, ub |-> FALSE]
    ELSE IF fuel = 0
    THEN [entry |-> NULL, ub |-> TRUE]
    ELSE IF "eq" \in MemcmpOutcomes(h[entry].key, key, Len(key))
    THEN [entry |-> entry, ub |-> h[entry].st # "live"]
    ELSE LET r == FindScanNoSize(h, h[entry].next, key, fuel - 1)
         IN  [r EXCEPT !.ub = @ \/ h[entry].st # "live"]

\* The loop of findInHashTable: the entry whose value descriptor is returned
\* (or NULL), and whether the walk read a freed node.
RECURSIVE FindScan(_, _, _, _)
FindScan(h, entry, key, fuel) ==
    IF entry = NULL
    THEN [entry |-> NULL, ub |-> FALSE]
    ELSE IF fuel = 0
    THEN [entry |-> NULL, ub |-> TRUE]
    ELSE IF KeyMatches(h[entry], key)
    THEN [entry |-> entry, ub |-> h[entry].st # "live"]
    ELSE LET r == FindScan(h, h[entry].next, key, fuel - 1)
         IN  [r EXCEPT !.ub = @ \/ h[entry].st # "live"]

findInHashTable(key) ==
    /\ ~crashed
    /\ ht.st # "freed"
    /\ \/ \* hashtable == NULL
          /\ ht.st = "null"
          /\ call' = Returned("find", key, <<>>, 0, NULL, "null")
          /\ UNCHANGED <<signedChar, ht, heap, crashed, doubleFree>>
       \/ \* HASH(key, keysize) % 0
          /\ ht.st = "live" /\ ht.capacity = 0
          /\ Crash("find")
       \/ /\ ht.st = "live" /\ ht.capacity > 0
          /\ LET r == FindScan(heap, ht.table[Bucket(key)], key, Fuel)
             IN  \/ \* the walk read freed memory and faulted
                    /\ r.ub
                    /\ Crash("find")
                 \/ \* return &entry->v, or NULL
                    /\ call' = Returned("find", key, <<>>, 0, r.entry,
                                        IF r.entry = NULL THEN "absent"
                                        ELSE "found")
                    /\ UNCHANGED <<signedChar, ht, heap, crashed, doubleFree>>

\* ------------------------------------------------------------------ destroy

\* The do-while over one chain: every node met is freed; one already freed
\* is freed again.  [heap, doubleFree]
RECURSIVE DestroyChain(_, _, _, _)
DestroyChain(h, df, entry, fuel) ==
    IF entry = NULL \/ fuel = 0
    THEN [heap |-> h, doubleFree |-> df]
    ELSE DestroyChain(FreeEntry(h, entry), df \/ h[entry].st # "live",
                      h[entry].next, fuel - 1)

\* The for loop over the buckets, from bucket i on.
RECURSIVE DestroyBuckets(_, _, _, _)
DestroyBuckets(t, h, df, i) ==
    IF i >= t.capacity
    THEN [heap |-> h, doubleFree |-> df]
    ELSE LET r == DestroyChain(h, df, t.table[i], Fuel)
         IN  DestroyBuckets(t, r.heap, r.doubleFree, i + 1)

destroyHashTable ==
    /\ ~crashed
    /\ \/ \* hashtable == NULL
          /\ ht.st = "null"
          /\ call' = Returned("destroy", <<>>, <<>>, 0, 0, "null")
          /\ UNCHANGED <<signedChar, ht, heap, crashed, doubleFree>>
       \/ /\ ht.st = "live"
          /\ LET r == DestroyBuckets(ht, heap, doubleFree, 0)
             IN  /\ heap' = r.heap
                 /\ doubleFree' = r.doubleFree
          /\ ht' = [ht EXCEPT !.st = "freed"]
          /\ call' = Returned("destroy", <<>>, <<>>, 0, 0, "live")
          /\ UNCHANGED <<signedChar, crashed>>
       \/ \* the handle was destroyed before: the table it points to is freed
          /\ ht.st = "freed"
          /\ \/ Crash("destroy")
             \/ /\ heap' = DestroyBuckets(ht, heap, TRUE, 0).heap
                /\ doubleFree' = TRUE
                /\ call' = Returned("destroy", <<>>, <<>>, 0, 0, "freed")
                /\ UNCHANGED <<signedChar, ht, crashed>>

\* ------------------------------------------------------------------- chains

\* The addresses met from entry on by following next links.
RECURSIVE ChainFrom(_, _, _)
ChainFrom(h, entry, fuel) ==
    IF entry = NULL \/ fuel = 0
    THEN <<>>
    ELSE <<entry>> \o ChainFrom(h, h[entry].next, fuel - 1)

\* The chain of bucket i of table t.
ChainOf(t, h, i) == ChainFrom(h, t.table[i], Fuel)

\* Every address reachable from a bucket head of table t.
Reachable(t, h) ==
    UNION {{ChainOf(t, h, i)[j] : j \in 1..Len(ChainOf(t, h, i))} :
             i \in DOMAIN t.table}

\* The allocated entries in key's bucket chain that hold exactly key.
StoredAt(t, h, key) ==
    IF t.st # "live" \/ t.capacity = 0
    THEN {}
    ELSE LET c == ChainOf(t, h, U32Mod(RSHash(key, signedChar), t.capacity))
         IN  {c[j] : j \in {j \in 1..Len(c) :
                               /\ h[c[j]].st = "live"
                               /\ h[c[j]].key_size = Len(key)
                               /\ h[c[j]].key = key}}

\* What findInHashTable(key) does on table t: FindScan's record.
FindIn(t, h, key) ==
    FindScan(h, t.table[U32Mod(RSHash(key, signedChar), t.capacity)], key, Fuel)

\* ------------------------------------------------------------ specification

Next ==
    \/ \E size \in CreateSizes : createHashTable(size)
    \/ \E key \in Keys, value \in Values, oom \in BOOLEAN :
         insertInHashTable(key, value, oom)
    \/ \E key \in Keys : removeFromHashTable(key)
    \/ \E key \in Keys : findInHashTable(key)
    \/ destroyHashTable

Spec == Init /\ [][Next]_vars

\* Calls of createHashTable, insertInHashTable and findInHashTable only.
NextInsert ==
    \/ \E size \in CreateSizes : createHashTable(size)
    \/ \E key \in Keys, value \in Values, oom \in BOOLEAN :
         insertInHashTable(key, value, oom)
    \/ \E key \in Keys : findInHashTable(key)

SpecInsert == Init /\ [][NextInsert]_vars

\* ------------------------------------------------------------------- claims

\* The last call returned (it did not fault) and the table is in use.
ReturnedOnLive == ~crashed /\ ht.st = "live" /\ ht.capacity > 0

\* C1: round trip.  After an insert of (K, V) returned success, find(K)
\* returns an entry whose value bytes are V and whose value_size is Len(V).
\* (The most recent insert for K is here the last call.)
C1_RoundTrip ==
    (ReturnedOnLive /\ call.op = "insert" /\ call.ret = 0)
    => LET r == FindIn(ht, heap, call.key)
       IN  /\ ~r.ub
           /\ r.entry # NULL
           /\ heap[r.entry].value = call.value
           /\ heap[r.entry].value_size = Len(call.value)

\* C2: overwrite.  After an insert whose key was already stored (the entry
\* it matched holds exactly that key), the entry's value bytes are the new
\* value and its value_size the new length.
C2_OverwriteStoresValue ==
    (ReturnedOnLive /\ call.op = "insert" /\ call.path = "overwrite"
       /\ call.n \in StoredAt(ht, heap, call.key))
    => /\ heap[call.n].value = call.value
       /\ heap[call.n].value_size = Len(call.value)

\* C3: after a remove of a present key (found as an allocated entry, at the
\* head of its chain or after another entry), find of that key returns NULL.
C3_RemovedKeyAbsent ==
    (ReturnedOnLive /\ call.op = "remove" /\ call.path \in {"head", "nonhead"})
    => LET r == FindIn(ht, heap, call.key)
       IN  ~r.ub /\ r.entry = NULL

\* C4: chain integrity.  A remove of a present key leaves every other key
\* that find returned before the call found after it, with the same value
\* bytes and length, and find reads no freed memory on the way.
C4_RemoveKeepsOthers ==
    [][(/\ ht.st = "live" /\ ht.capacity > 0
        /\ ~crashed'
        /\ call'.op = "remove" /\ call'.path \in {"head", "nonhead"})
       => \A k \in Keys \ {call'.key} :
            LET before == FindIn(ht, heap, k)
                after  == FindIn(ht', heap', k)
            IN  (~before.ub /\ before.entry # NULL)
                => /\ ~after.ub
                   /\ after.entry # NULL
                   /\ heap'[after.entry].value = heap[before.entry].value
                   /\ heap'[after.entry].value_size
                        = heap[before.entry].value_size]_vars

\* C5: size invariant.  The table's size field equals the number of entries
\* reachable from its bucket heads.
C5_SizeIsEntryCount ==
    (~crashed /\ ht.st = "live")
    => ht.size = Cardinality(Reachable(ht, heap))

\* C6: an insert whose key is already stored (an allocated entry of the
\* key's bucket chain holds exactly that key) leaves size unchanged.
C6_OverwriteKeepsSize ==
    [][(/\ ~crashed'
        /\ call'.op = "insert" /\ call'.ret = 0
        /\ StoredAt(ht, heap, call'.key) # {})
       => ht'.size = ht.size]_vars

\* C6 witness: an insert of a stored key took the overwrite path on the
\* entry that holds the key.
C6_Witness ==
    /\ ReturnedOnLive
    /\ call.op = "insert" /\ call.path = "overwrite"
    /\ call.n \in StoredAt(ht, heap, call.key)
    /\ ht.size >= 2

\* C7: uniqueness.  After any sequence of inserts, no bucket chain holds two
\* entries with equal key_size and equal key bytes.
C7_Uniqueness ==
    (~crashed /\ ht.st = "live")
    => \A i \in DOMAIN ht.table :
         LET c == ChainOf(ht, heap, i)
         IN  \A j, k \in 1..Len(c) :
               j < k => ~(/\ heap[c[j]].key_size = heap[c[k]].key_size
                          /\ heap[c[j]].key = heap[c[k]].key)

\* C7 witness: a chain of at least two entries, and the last call inserted a
\* key that the chain already held.
C7_Witness ==
    /\ ReturnedOnLive
    /\ call.op = "insert" /\ call.path = "overwrite"
    /\ call.n \in StoredAt(ht, heap, call.key)
    /\ \E i \in DOMAIN ht.table :
         /\ Len(ChainOf(ht, heap, i)) >= 2
         /\ call.n = ChainOf(ht, heap, i)[2]

\* C8: idempotent remove.  A remove of a key that is not stored (no
\* allocated entry of its bucket chain holds exactly that key) returns and
\* leaves the table, every chain and entry, and the allocator's view of
\* every block unchanged: it frees nothing.
C8_RemoveAbsentIsNoOp ==
    [][(/\ ht.st = "live" /\ ht.capacity > 0
        /\ call'.op = "remove"
        /\ StoredAt(ht, heap, call'.key) = {})
       => /\ ~crashed'
          /\ ht' = ht
          /\ heap' = heap
          /\ doubleFree' = doubleFree]_vars

\* C9: find returns an entry only if the entry's key_size equals the queried
\* keysize and its key bytes equal the queried bytes.
C9_FindExactMatch ==
    (~crashed /\ call.op = "find" /\ call.ret # NULL)
    => /\ heap[call.ret].key_size = Len(call.key)
       /\ heap[call.ret].key = call.key

\* C9 witness: find returned an entry that follows, in its chain, an entry
\* whose key is a proper byte-prefix of the queried key.
C9_Witness ==
    /\ ReturnedOnLive
    /\ call.op = "find" /\ call.ret # NULL
    /\ \E i \in DOMAIN ht.table :
         LET c == ChainOf(ht, heap, i)
         IN  /\ Len(c) >= 2
             /\ c[2] = call.ret
             /\ heap[c[1]].key_size < Len(call.key)
             /\ heap[c[1]].key = SubSeq(call.key, 1, heap[c[1]].key_size)

\* C10: destroy safety.  After destroyHashTable of a table in use, no block
\* was freed twice (by it or by an earlier remove) and no entry is left
\* allocated.
C10_DestroyFreesOnce ==
    (~crashed /\ call.op = "destroy" /\ call.path = "live")
    => /\ ~doubleFree
       /\ \A a \in Addr : heap[a].st # "live"

\* C11: destroyHashTable on a null handle or on a handle that was already
\* destroyed is a safe no-op: the call returns, frees nothing (no block
\* changes state, none is freed twice) and leaves the handle as it was.
C11_DestroyNoTableIsNoOp ==
    [][(call'.op = "destroy" /\ ht.st \in {"null", "freed"})
       => /\ ~crashed'
          /\ ht' = ht
          /\ heap' = heap
          /\ doubleFree' = doubleFree]_vars

\* C12: createHashTable with a requested capacity <= 0 fails: it returns
\* NULL and no table exists afterwards; hence every table in use has
\* capacity > 0 (and hash % capacity is defined).
C12_CreateRejectsNoCapacity ==
    /\ (call.op = "create" /\ call.n <= 0)
       => (call.ret = NULL /\ ht.st = "null")
    /\ (~crashed /\ ht.st = "live") => ht.capacity > 0

\* What an entry holds, apart from its link: whether it is allocated, its
\* key and its value descriptor.
EntryContents(e) ==
    [st |-> e.st, key |-> e.key, key_size |-> e.key_size,
     value |-> e.value, value_size |-> e.value_size]

\* The bucket chains of table t as sequences of entry contents, in chain
\* order, bucket by bucket.
ChainContents(t, h) ==
    [i \in DOMAIN t.table |->
       [j \in 1..Len(ChainOf(t, h, i)) |->
          EntryContents(h[ChainOf(t, h, i)[j]])]]

\* C13: when an allocation made by insertInHashTable fails (the node, the
\* key buffer or the value buffer of a new entry, or the growth of a value
\* buffer), the call returns a failure result and the bucket chains and size
\* are as before the call.
C13_FailedAllocationReported ==
    [][(call'.op = "insert" /\ call'.path \in {"nomem", "overwrite-nomem"})
       => /\ ~crashed'
          /\ call'.ret # 0
          /\ ht' = ht
          /\ ChainContents(ht', heap') = ChainContents(ht, heap)]_vars

\* C14: an insert of a new key (no allocated entry of its bucket chain has
\* the same key_size and the same bytes) that returns, all its allocations
\* having succeeded, has added exactly one entry, holding copies of the key
\* and the value, at the tail of the key's bucket chain; the entries already
\* there keep their order and contents, the other chains are as before, and
\* size has grown by one.  So also when a stored key of the bucket begins
\* with the bytes of the new key.
C14_NewKeyAppended ==
    [][(/\ ht.st = "live" /\ ht.capacity > 0
        /\ ~crashed'
        /\ call'.op = "insert"
        /\ call'.path # "overwrite-nomem"
        /\ StoredAt(ht, heap, call'.key) = {})
       => /\ call'.ret = 0
          /\ ht'.size = ht.size + 1
          /\ LET b == U32Mod(RSHash(call'.key, signedChar), ht.capacity)
             IN  ChainContents(ht', heap')
                   = [ChainContents(ht, heap) EXCEPT
                        ![b] = Append(@, EntryContents(
                                 NewEntry(call'.key, call'.value)))]]_vars

\* C15: an insert call that returns has, for every stored key its chain walk
\* compared, compared at most that entry's key_size bytes: no stored key is
\* read past its end, also when the new key is the longer one.
C15_InsertReadsWithinKey ==
    [][(/\ ht.st = "live" /\ ht.capacity > 0
        /\ ~crashed'
        /\ call'.op = "insert"
        /\ ht.table[U32Mod(RSHash(call'.key, signedChar), ht.capacity)] # NULL)
       => \A e \in InsertCompared(
                     heap,
                     ht.table[U32Mod(RSHash(call'.key, signedChar),
                                     ht.capacity)],
                     call'.key, Fuel) :
            InsertCompareSize(heap[e], call'.key) <= heap[e].key_size]_vars

\* The position of the first occurrence of address a in chain c (0 if none).
IndexIn(c, a) ==
    IF \E j \in 1..Len(c) : c[j] = a
    THEN CHOOSE j \in 1..Len(c) : c[j] = a /\ \A k \in 1..(j - 1) : c[k] # a
    ELSE 0

\* C16: unlinking.  After a remove that found its key in an allocated entry:
\* if the entry was the first of its bucket chain, the bucket head is the
\* entry's successor and the chain is the old one without its first entry,
\* in the old order; if it was not the first, the next link of the entry
\* before it is the removed entry's next.
C16_RemoveUnlinks ==
    [][(/\ ht.st = "live" /\ ht.capacity > 0
        /\ ~crashed'
        /\ call'.op = "remove" /\ call'.path \in {"head", "nonhead"})
       => LET b == U32Mod(RSHash(call'.key, signedChar), ht.capacity)
              c == ChainOf(ht, heap, b)
              k == IndexIn(c, call'.n)
          IN  IF k = 1
              THEN /\ ht'.table[b] = heap[call'.n].next
                   /\ ChainOf(ht', heap', b) = Tail(c)
              ELSE /\ k > 1
                   /\ heap'[c[k - 1]].next = heap[call'.n].next]_vars

\* --------------------------------------------------- the hash function alone

\* Longest key hashed.
MaxKeyLen == 2

\* Byte values hashed: both ends of 0..127 and of 128..255, and one inside.
HashBytes == {0, 1, 127, 128, 200, 255}

\* Every byte sequence of at most MaxKeyLen of these bytes.
HashKeys == UNION {[1..n -> HashBytes] : n \in 0..MaxKeyLen}

\* Bucket counts of the table the index is computed for.
HashCapacities == {1, 2, 3}

\* A table of capacity buckets, as createHashTable returns it, on either
\* kind of build.
InitHash ==
    /\ signedChar \in BOOLEAN
    /\ \E capacity \in HashCapacities :
         ht = [st |-> "live", capacity |-> capacity, size |-> 0,
               table |-> [i \in 0..(capacity - 1) |-> NULL]]
    /\ heap = [a \in Addr |-> FreshNode]
    /\ call = NoCall
    /\ crashed = FALSE
    /\ doubleFree = FALSE

\* unsigned int hash = HASH(key, keysize) % hashtable->capacity, on its own:
\* call.value is <<hi, lo>> of HASH(key, keysize), call.n the bucket index.
HASH(key) ==
    /\ call' = Returned("hash", key,
                        <<RSHash(key, signedChar).hi,
                          RSHash(key, signedChar).lo>>,
                        Bucket(key), 0, "hash")
    /\ UNCHANGED <<signedChar, ht, heap, crashed, doubleFree>>

NextHash == \E key \in HashKeys : HASH(key)

SpecHash == InitHash /\ [][NextHash]_vars

\* 32-bit unsigned arithmetic done a second way, on four base-256 digits,
\* least significant first.
Digits(n) ==
    <<n % 256, (n \div 256) % 256, (n \div Half) % 256,
      (n \div (256 * Half)) % 256>>

\* x * y mod 2^32 on digits: column sums, then carries.
DigitsMul(x, y) ==
    LET c1 == x[1] * y[1]
        c2 == x[1] * y[2] + x[2] * y[1] + (c1 \div 256)
        c3 == x[1] * y[3] + x[2] * y[2] + x[3] * y[1] + (c2 \div 256)
        c4 == x[1] * y[4] + x[2] * y[3] + x[3] * y[2] + x[4] * y[1]
              + (c3 \div 256)
    IN  <<c1 % 256, c2 % 256, c3 % 256, c4 % 256>>

\* x + y mod 2^32 on digits.
DigitsAdd(x, y) ==
    LET c1 == x[1] + y[1]
        c2 == x[2] + y[2] + (c1 \div 256)
        c3 == x[3] + y[3] + (c2 \div 256)
        c4 == x[4] + y[4] + (c3 \div 256)
    IN  <<c1 % 256, c2 % 256, c3 % 256, c4 % 256>>

\* x mod m on digits, most significant digit first.
DigitsMod(x, m) ==
    ((((((x[4] % m) * 256 + x[3]) % m) * 256 + x[2]) % m) * 256 + x[1]) % m

\* A key byte as the unsigned int it is added as: the byte itself, or, when
\* it is read as a signed char and is above 127, byte - 256 modulo 2^32.
ByteDigits(byte, signed) ==
    IF signed /\ byte >= 128
    THEN <<byte, 255, 255, 255>>
    ELSE <<byte, 0, 0, 0>>

\* hash = 0, a = 63689; for each byte in order hash = hash * a + byte, then
\* a = a * 378551, all modulo 2^32.  The result as <<hi, lo>>.
RECURSIVE RSHashDigitsLoop(_, _, _, _, _)
RSHashDigitsLoop(key, i, hash, a, signed) ==
    IF i > Len(key)
    THEN hash
    ELSE RSHashDigitsLoop(key, i + 1,
                    DigitsAdd(DigitsMul(hash, a), ByteDigits(key[i], signed)),
                    DigitsMul(a, Digits(RSHash_b)), signed)

RSHashDigits(key, signed) ==
    RSHashDigitsLoop(key, 1, Digits(0), Digits(RSHash_a), signed)

\* C17 as stated: for every byte sequence, bytes 128..255 included, HASH is
\* the result of hash = 0, a = 63689 and, per byte taken as unsigned 0..255,
\* hash = (hash * a + byte) mod 2^32, a = (a * 378551) mod 2^32; the bucket
\* index is that hash mod capacity.
C17_HashBytesUnsigned ==
    (call.op = "hash")
    => LET h == RSHashDigits(call.key, FALSE)
       IN  /\ call.value = <<h[4] * 256 + h[3], h[2] * 256 + h[1]>>
           /\ call.n = DigitsMod(h, ht.capacity)

\* C17 amended: the same recurrence with each byte taken as the build's
\* plain char converted to unsigned int: where char is signed a byte above
\* 127 enters as byte - 256 modulo 2^32, where it is unsigned as the byte.
C17_HashBytesAsChar ==
    (call.op = "hash")
    => LET h == RSHashDigits(call.key, signedChar)
       IN  /\ call.value = <<h[4] * 256 + h[3], h[2] * 256 + h[1]>>
           /\ call.n = DigitsMod(h, ht.capacity)

\* C17 witness: a two-byte key with a byte above 127 was hashed where char
\* is signed, for a table of three buckets, and the bucket index is not the
\* one the unsigned reading gives.
C17_Witness ==
    /\ call.op = "hash"
    /\ signedChar
    /\ Len(call.key) = 2
    /\ \E i \in 1..2 : call.key[i] >= 128
    /\ ht.capacity = 3
    /\ call.n # DigitsMod(RSHashDigits(call.key, FALSE), ht.capacity)

\* C18 as stated: every insert call that returns success has incremented
\* size by one, a call that overwrote the value of a stored key included.
C18_EveryInsertCounts ==
    [][(~crashed' /\ call'.op = "insert" /\ call'.ret = 0)
       => ht'.size = ht.size + 1]_vars

\* C18 amended: an insert call that returns success has incremented size by
\* one when it linked a new entry, and has left size unchanged when it took
\* the overwrite path (whether or not the value buffer could be grown).
C18_NewEntryCounts ==
    [][(~crashed' /\ call'.op = "insert" /\ call'.ret = 0)
       => /\ call'.path \in {"new", "overwrite", "overwrite-nomem"}
          /\ call'.path = "new" => ht'.size = ht.size + 1
          /\ call'.path # "new" => ht'.size = ht.size]_vars

\* C18 witness: the second of two inserts of the same key returned success
\* on the overwrite path, and size is still 1.
C18_Witness ==
    /\ ReturnedOnLive
    /\ call.op = "insert" /\ call.ret = 0 /\ call.path = "overwrite"
    /\ call.n \in StoredAt(ht, heap, call.key)
    /\ ht.size = 1
    /\ Cardinality(Reachable(ht, heap)) = 1

\* C19: each entry reachable from bucket i holds a key whose hash, over its
\* key_size bytes, modulo capacity is i.
C19_EntriesInOwnBucket ==
    (~crashed /\ ht.st = "live" /\ ht.capacity > 0)
    => \A i \in DOMAIN ht.table :
         \A j \in 1..Len(ChainOf(ht, heap, i)) :
           LET e == heap[ChainOf(ht, heap, i)[j]]
           IN  U32Mod(RSHash(SubSeq(e.key, 1, e.key_size), signedChar),
                      ht.capacity) = i

\* C20: no dangling chain nodes.  While the table is in use every node
\* reachable from a bucket head by next links is allocated, and no call has
\* freed a block a second time.
C20_NoDanglingNode ==
    (~crashed /\ ht.st = "live")
    => /\ \A a \in Reachable(ht, heap) : heap[a].st = "live"
       /\ ~doubleFree

====
